---- MODULE Spec2Model ----
(***************************************************************************)
(* Stateful decode-session manager of the PUSCH decoder MEX object:        *)
(* the memento storage (handle store), the soft-buffer pool kept inside    *)
(* each memento, the four methods new / step / reset_crcs / release and    *)
(* the dispatcher that routes a call to them.                              *)
(*                                                                         *)
(* One action is one call of MexFunction::operator(): the call is fully    *)
(* processed before the next one is accepted.  The variable `last` keeps   *)
(* the record of the call that has just been processed (its inputs, the    *)
(* error it raised, what it returned), which is what the caller observes.  *)
(***************************************************************************)
EXTENDS Integers, FiniteSets, Sequences, TLC

(***************************************************************************)
(* Bounds of the model.                                                    *)
(***************************************************************************)
\* Number of heap addresses a pusch_memento can be allocated at.
NumAddr == 2
\* Number of mementos created over a run (caps the creation counter).
MaxMementos == 2
\* Saturation of the abstract amount of combined soft data in a buffer.
MaxSoft == 1
\* Number of slots the clock of the radio timeline advances over a run.
MaxSlot == 2
\* Largest scalar double passed to a method of the dispatcher unit test
MaxArg == 1
\* Longest argument list passed to the dispatcher of the unit test
MaxInputs == 3
\* Largest MaxSoftbuffers asked of a pool created after the first one.
MaxLaterPool == 1

(***************************************************************************)
(* Values.                                                                 *)
(***************************************************************************)
\* The null pointer; heap addresses are 1..NumAddr.
Null == 0
Addrs == 1..NumAddr
\* uint64 keys a caller may present: the value of every address, whether a
\* memento is, was or never has been stored at it.
Keys == Addrs
\* trx_buffer_identifier(RNTI, HARQProcessID).
RNTIs == {5}
HARQs == {0, 1}
SessionIds == RNTIs \X HARQs
\* The slot handed to every reservation: a default-constructed slot_point.
DefaultSlot == 0

\* The scalar structures a caller hands to "new".  The first one asks for a
\* pool of no buffer at all.
PoolInputs ==
  { [MaxCodeblockSize |-> 1000, MaxSoftbuffers |-> 0, MaxCodeblocks |-> 0,
     ExpireTimeoutSlots |-> 10],
    [MaxCodeblockSize |-> 1000, MaxSoftbuffers |-> 1, MaxCodeblocks |-> 1,
     ExpireTimeoutSlots |-> 10],
    [MaxCodeblockSize |-> 1000, MaxSoftbuffers |-> 2, MaxCodeblocks |-> 2,
     ExpireTimeoutSlots |-> 1] }

\* Segmentation configurations offered to "step": TransportBlockLength (bits)
\* and BGN.  3844 bits is not a whole number of bytes.
SegConfigs == { [tbs |-> 3824, bg |-> 1], [tbs |-> 3844, bg |-> 1],
                [tbs |-> 3848, bg |-> 2] }
\* Codeblock counts a caller may declare.
NcbValues == 1..2

Min(a, b) == IF a <= b THEN a ELSE b

(***************************************************************************)
(* State.                                                                  *)
(***************************************************************************)
VARIABLES
  heap,      \* live pusch_memento objects: address -> [mid, asked, pool]
  storage,   \* memento_storage::storage: key -> shared_ptr (an address)
  nextMid,   \* serial number of the next memento created (its identity)
  last,      \* the call just processed, as the caller observes it
  now,       \* the slot the radio timeline has reached; no call reads it
  callbacks  \* srsran_mex_dispatcher::callbacks: action name -> method

vars == <<heap, storage, nextMid, last, now, callbacks>>

(***************************************************************************)
(* Handle store: memento_storage.                                          *)
(***************************************************************************)
\* std::hash<std::shared_ptr<memento>>: the hash of the stored pointer, which
\* is the pointer value itself converted to size_t.
\* A hash that is not injective on addresses, for comparison: two live
\* mementos can then be given the same key.
HashShifted(p) == (p + 1) \div 2
Hash(p) == p

\* std::map::emplace: inserts only when the key is not present.
Emplace(st, key, mem) ==
  IF key \in DOMAIN st THEN st
  ELSE [k \in DOMAIN st \cup {key} |-> IF k = key THEN mem ELSE st[k]]

\* memento_storage::store, after the non-null assertion: the new map and the
\* key returned.
\* A store that files the memento under the hash of another address, for
\* comparison.
StoreUnderOtherKey(st, mem) ==
  [storage |-> Emplace(st, Hash((mem % NumAddr) + 1), mem),
   key |-> Hash((mem % NumAddr) + 1)]
Store(st, mem) == [storage |-> Emplace(st, Hash(mem), mem), key |-> Hash(mem)]

\* memento_storage::get_memento: the shared_ptr found, or nullptr.
\* A lookup that falls back on the first memento of the store when the key is
\* absent, for comparison.
GetMementoFirst(st, key) ==
  IF DOMAIN st = {} THEN Null
  ELSE IF key \in DOMAIN st THEN st[key]
  ELSE st[CHOOSE k \in DOMAIN st : \A j \in DOMAIN st : k <= j]
GetMemento(st, key) ==
  IF key \notin DOMAIN st THEN Null
  ELSE IF Hash(st[key]) # key THEN Null
  ELSE st[key]

\* memento_storage::release_memento: std::map::erase(key) and its count.
\* A release that counts the key without erasing it, for comparison.
ReleaseNoErase(st, key) ==
  [storage |-> st, count |-> IF key \in DOMAIN st THEN 1 ELSE 0]
\* A release that empties the storage when the key is present, for
\* comparison.
ReleaseMementoAll(st, key) ==
  [storage |-> IF key \in DOMAIN st THEN [k \in {} |-> Null] ELSE st,
   count |-> IF key \in DOMAIN st THEN 1 ELSE 0]
ReleaseMemento(st, key) ==
  [storage |-> [k \in DOMAIN st \ {key} |-> st[k]],
   count |-> IF key \in DOMAIN st THEN 1 ELSE 0]

\* The mementos that stay alive: those a shared_ptr of the storage points to.
Collect(hp, st) ==
  [a \in {b \in DOMAIN hp : \E k \in DOMAIN st : st[k] = b} |-> hp[a]]

(***************************************************************************)
(* Buffer pool: the rx buffer pool held by a pusch_memento.                *)
(***************************************************************************)
\* A combining buffer: codeblock count, amount of combined soft data,
\* codeblocks whose CRC has passed, slot of the last reservation.
NoBuf == [ncb |-> 0, soft |-> 0, crc |-> {}, touched |-> 0]
NewBuf(n, slot) == [ncb |-> n, soft |-> 0, crc |-> {}, touched |-> slot]

\* A configuration the pool factory can build a pool for.
ValidPoolConfig(cfg) ==
  /\ cfg.max_codeblock_size > 0
  /\ cfg.nof_buffers > 0
  /\ cfg.nof_codeblocks > 0

\* create_rx_buffer_pool: the unique_ptr to an empty pool with the given
\* configuration, or a null one (valid = FALSE) when no pool can be built.
CreateRxBufferPool(cfg) ==
  [valid |-> ValidPoolConfig(cfg), cfg |-> cfg, bufs |-> [id \in {} |-> NoBuf]]

Restrict(f, S) == [x \in S |-> f[x]]

\* A buffer older than the expiration horizon counts as already evicted.
Expired(pool, b, slot) == slot - b.touched > pool.cfg.expire_timeout_slots
LiveIds(pool, slot) ==
  {id \in DOMAIN pool.bufs : ~Expired(pool, pool.bufs[id], slot)}

RECURSIVE SumCb(_)
SumCb(bufs) ==
  IF DOMAIN bufs = {} THEN 0
  ELSE LET id == CHOOSE x \in DOMAIN bufs : TRUE
       IN bufs[id].ncb + SumCb(Restrict(bufs, DOMAIN bufs \ {id}))

\* The least recently touched buffer (the lowest HARQ process among equals).
Lru(bufs) ==
  CHOOSE id \in DOMAIN bufs :
    \A o \in DOMAIN bufs :
      \/ bufs[id].touched < bufs[o].touched
      \/ bufs[id].touched = bufs[o].touched /\ id[2] <= o[2]

\* Evicts least recently touched buffers until one more buffer of n
\* codeblocks fits the configured capacity.
RECURSIVE Evict(_, _, _)
Evict(bufs, n, cfg) ==
  IF \/ DOMAIN bufs = {}
     \/ /\ Cardinality(DOMAIN bufs) + 1 <= cfg.nof_buffers
        /\ SumCb(bufs) + n <= cfg.nof_codeblocks
    THEN bufs
    ELSE Evict(Restrict(bufs, DOMAIN bufs \ {Lru(bufs)}), n, cfg)

\* The pool with buffer b installed for id, after making room for it.
Install(pool, slot, id, b) ==
  LET others == Restrict(pool.bufs, LiveIds(pool, slot) \ {id})
      kept   == Evict(others, b.ncb, pool.cfg)
  IN  [pool EXCEPT !.bufs =
         [x \in DOMAIN kept \cup {id} |-> IF x = id THEN b ELSE kept[x]]]

\* rx_buffer_pool::reserve(slot, id, nof_codeblocks, new_data): the pool
\* afterwards, the buffer handed out, valid (status "ok") or not, and whether
\* it is a newly allocated one.
ReserveFailed(pool, status) ==
  [status |-> status, pool |-> pool, buf |-> NoBuf, fresh |-> FALSE]
Reserve(pool, slot, id, n, isNew) ==
  IF id \in LiveIds(pool, slot)
    THEN IF isNew
      THEN \* new data on a live buffer: cleared and re-sized in place
        LET b == NewBuf(n, slot)
        IN  [status |-> "ok", pool |-> [pool EXCEPT !.bufs[id] = b],
             buf |-> b, fresh |-> FALSE]
      ELSE \* retransmission on a live buffer: the accumulated state is kept
        IF pool.bufs[id].ncb # n
          THEN ReserveFailed(pool, "invalid")
          ELSE LET b == [pool.bufs[id] EXCEPT !.touched = slot]
               IN  [status |-> "ok", pool |-> [pool EXCEPT !.bufs[id] = b],
                    buf |-> b, fresh |-> FALSE]
    ELSE \* no live buffer: one is allocated, after making room for it
      IF n > pool.cfg.nof_codeblocks
        THEN ReserveFailed(pool, "invalid")
        ELSE LET b == NewBuf(n, slot)
             IN  [status |-> "ok", pool |-> Install(pool, slot, id, b),
                  buf |-> b, fresh |-> TRUE]

\* rx_buffer::reset_codeblocks_crc.
ResetCodeblocksCrc(b) == [b EXCEPT !.crc = {}]

(***************************************************************************)
(* External collaborators.                                                 *)
(***************************************************************************)
\* ldpc::compute_nof_codeblocks(tbs, base_graph): TS 38.212 segmentation.
TbCrcSize(tbs) == IF tbs <= 3824 THEN 16 ELSE 24
MaxSegmentLength(bg) == IF bg = 1 THEN 8448 ELSE 3840
CbCrcSize == 24
ComputeNofCodeblocks(tbs, bg) ==
  LET bits == tbs + TbCrcSize(tbs)
      seg  == MaxSegmentLength(bg) - CbCrcSize
  IN  IF bits <= MaxSegmentLength(bg) THEN 1
      ELSE (bits + seg - 1) \div seg

\* The decode engine fed with one set of soft bits: it combines them into
\* the buffer and records the codeblocks whose CRC passes.
Decode(b, pass) ==
  [b EXCEPT !.soft = Min(@ + 1, MaxSoft), !.crc = @ \cup pass]
\* The CRC outcomes of one decoding of n codeblocks: the codeblocks 1..k pass.
CrcOutcomes(n) == {1..k : k \in 0..n}

(***************************************************************************)
(* The call record.                                                        *)
(***************************************************************************)
\* What a call leaves for the caller to observe.  Fields a call does not
\* reach keep the value they have here.
NoCall ==
  [op        |-> "none",   \* action name of the call
   key       |-> 0,        \* softbufferPoolID presented
   err       |-> "none",   \* error the call was aborted with
   ret       |-> 0,        \* key returned by "new"
   released  |-> 0,        \* mementos removed by "release"
   sid       |-> <<0, 0>>, \* buffer identifier (RNTI, HARQProcessID)
   tbs       |-> 0,        \* TransportBlockLength of the segmentation
   ncb       |-> 0,        \* NumCodeblocks declared by the caller
   expected  |-> 0,        \* codeblocks computed from the segmentation
   newData   |-> FALSE,    \* new-transmission flag
   session   |-> <<0, 0>>, \* RNTI and HARQProcessID the caller named
   status    |-> "none",   \* validity of the buffer reserved, if one was asked
   fresh     |-> FALSE,    \* the reservation allocated a new buffer
   resv      |-> NoBuf,    \* the buffer as the reservation handed it out
   decoded   |-> FALSE,    \* the decode engine was invoked
   cfgNew    |-> FALSE,    \* new_data of the configuration the engine got
   hasResult |-> FALSE,    \* the notifier reported a result
   out       |-> {},       \* indices of the outputs assigned
   inputs    |-> <<>>,     \* argument list the dispatcher was called with
   handler   |-> "none",   \* method the dispatcher invoked
   received  |-> <<>>,     \* argument list that method was invoked with
   val       |-> 0,        \* value a unit-test method assigned to outputs[0]
   reg       |-> <<>>,     \* name and method create_callback was given
   mem       |-> Null]     \* pointer given to, or returned by, the storage

(***************************************************************************)
(* MexFunction methods.                                                    *)
(***************************************************************************)
\* The pool configuration method_new reads from the structure.
\* A reading that takes the codeblock budget from MaxCodeblockSize, for
\* comparison.
PoolConfigCodeblockSize(in) ==
  [max_codeblock_size   |-> in.MaxCodeblockSize,
   nof_buffers          |-> in.MaxSoftbuffers,
   nof_codeblocks       |-> in.MaxCodeblockSize,
   expire_timeout_slots |-> in.ExpireTimeoutSlots]
PoolConfig(in) ==
  [max_codeblock_size   |-> in.MaxCodeblockSize,
   nof_buffers          |-> in.MaxSoftbuffers,
   nof_codeblocks       |-> in.MaxCodeblocks,
   expire_timeout_slots |-> in.ExpireTimeoutSlots]

\* trx_buffer_identifier buf_id(RNTI, HARQProcessID): the identifier step and
\* reset_crcs ask the pool with.
\* An identifier made of the RNTI alone, for comparison.
BufferIdentifierRntiOnly(rnti, harq) == <<rnti, 0>>
BufferIdentifier(rnti, harq) == <<rnti, harq>>

\* method_new: creates a pool inside a new memento and stores it.  The
\* allocator places the memento at any free address.  std::make_shared never
\* yields a null memento, whatever the pool factory has returned, so the test
\* of the memento pointer never aborts the call.
\* The memento remembers the structure it was asked with (asked), which no
\* method reads.  The pools created after the first one are small ones.
MethodNew ==
  \E in \in PoolInputs, a \in Addrs \ DOMAIN heap :
    /\ nextMid <= MaxMementos
    /\ nextMid > 1 => in.MaxSoftbuffers <= MaxLaterPool
    /\ now' = now
    /\ callbacks' = callbacks
    /\ LET mem == [mid |-> nextMid, asked |-> in,
                   pool |-> CreateRxBufferPool(PoolConfig(in))]
           st  == Store(storage, a)
           hp  == [x \in DOMAIN heap \cup {a} |-> IF x = a THEN mem ELSE heap[x]]
       IN  /\ storage' = st.storage
           /\ heap' = Collect(hp, st.storage)
           /\ last' = [NoCall EXCEPT !.op = "new", !.ret = st.key, !.out = {0}]
    /\ nextMid' = nextMid + 1

\* pusch_memento::retrieve_softbuffer: requests the buffer from the pool of
\* the memento, with a default slot.
\* A retrieval that treats every request as a retransmission, for comparison.
MementoRetrieveAsRetx(pool, id, n, isNew) ==
  Reserve(pool, DefaultSlot, id, n, FALSE)
\* A retrieval that ignores the new-data flag of the caller, for comparison.
MementoRetrieveAsNewData(pool, id, n, isNew) ==
  Reserve(pool, DefaultSlot, id, n, TRUE)
MementoRetrieveSoftbuffer(pool, id, n, isNew) ==
  IF pool.valid THEN Reserve(pool, DefaultSlot, id, n, isNew)
  ELSE ReserveFailed(pool, "NullPool")  \* pool-> on a null unique_ptr

\* What a build can make of the call through a null pool pointer: the
\* process is brought down, or the call goes on to report a failure.
UndefinedOutcomes == {"Crashed", "CannotRetrieveSoftbuffer"}

\* MexFunction::retrieve_softbuffer: the error raised, if any, and the
\* reservation made on the pool of the memento.
\* A retrieval that does not test the validity of the reserved buffer, for
\* comparison.
RetrieveSoftbufferUnchecked(key, id, n, isNew) ==
  IF GetMemento(storage, key) = Null
    THEN [err |-> "UnknownHandle", status |-> "none", buf |-> NoBuf,
          fresh |-> FALSE, heap |-> heap]
    ELSE LET a == GetMemento(storage, key)
             r == MementoRetrieveSoftbuffer(heap[a].pool, id, n, isNew)
         IN  [err |-> "none", status |-> r.status, buf |-> r.buf,
              fresh |-> r.fresh, heap |-> [heap EXCEPT ![a].pool = r.pool]]
\* A retrieval from one pool that all the mementos share, for comparison.
RetrieveSoftbufferShared(key, id, n, isNew) ==
  IF GetMemento(storage, key) = Null
    THEN [err |-> "UnknownHandle", status |-> "none", buf |-> NoBuf,
          fresh |-> FALSE, heap |-> heap]
    ELSE LET a == GetMemento(storage, key)
             r == MementoRetrieveSoftbuffer(heap[a].pool, id, n, isNew)
         IN  [err    |-> IF r.status = "ok" THEN "none"
                         ELSE IF r.status = "NullPool" THEN "Undefined"
                         ELSE "CannotRetrieveSoftbuffer",
              status |-> r.status,
              buf    |-> r.buf,
              fresh  |-> r.fresh,
              heap   |-> [x \in DOMAIN heap |->
                            [heap[x] EXCEPT !.pool = r.pool]]]
RetrieveSoftbuffer(key, id, n, isNew) ==
  IF GetMemento(storage, key) = Null
    THEN [err |-> "UnknownHandle", status |-> "none", buf |-> NoBuf,
          fresh |-> FALSE, heap |-> heap]
    ELSE LET a == GetMemento(storage, key)
             r == MementoRetrieveSoftbuffer(heap[a].pool, id, n, isNew)
         IN  [err    |-> IF r.status = "ok" THEN "none"
                         ELSE IF r.status = "NullPool" THEN "Undefined"
                         ELSE "CannotRetrieveSoftbuffer",
              status |-> r.status,
              buf    |-> r.buf,
              fresh  |-> r.fresh,
              heap   |-> [heap EXCEPT ![a].pool = r.pool]]

\* The heap with buffer b written back for id in the pool reached by key.
WriteBuf(hp, st, key, id, b) ==
  [hp EXCEPT ![GetMemento(st, key)].pool.bufs[id] = b]

\* The checks method_step makes before it asks for the buffer, in the order
\* it makes them: the error of the first one that fails.
\* The same checks with the handle resolved first, for comparison.
StepCheckHandleFirst(tbs, n, check, mem) ==
  IF tbs % 8 # 0 THEN "TbsNotByteExact"
  ELSE IF mem = Null THEN "UnknownHandle"
  ELSE IF n # check THEN "CodeblockCountMismatch"
  ELSE "none"
\* The same checks with only a count below the computed one refused, for
\* comparison.
StepCheckFewerOnly(tbs, n, check, mem) ==
  IF tbs % 8 # 0 THEN "TbsNotByteExact"
  ELSE IF n < check THEN "CodeblockCountMismatch"
  ELSE IF mem = Null THEN "UnknownHandle"
  ELSE "none"
StepCheck(tbs, n, check, mem) ==
  IF tbs % 8 # 0 THEN "TbsNotByteExact"
  ELSE IF n # check THEN "CodeblockCountMismatch"
  ELSE IF mem = Null THEN "UnknownHandle"
  ELSE "none"

\* The end of method_step once the soft bits have been fed to the decoder:
\* outputs[0] is assigned, the notifier spy is asked whether a result has
\* been reported, and only then outputs[1] is assigned.
\* The same with the statistics assigned before the spy is asked, for
\* comparison.
StepFinishStatsFirst(done) ==
  [err |-> IF done THEN "none" ELSE "NoResult", out |-> {0, 1}]
\* The same without asking the spy, for comparison.
StepFinishUnchecked(done) == [err |-> "none", out |-> {0, 1}]
StepFinish(done) ==
  [err |-> IF done THEN "none" ELSE "NoResult",
   out |-> IF done THEN {0, 1} ELSE {0}]

\* method_step: decodes one codeword.
MethodStep ==
  /\ now' = now
  /\ callbacks' = callbacks
  /\ \E key \in Keys, seg \in SegConfigs, n \in NcbValues :
    LET check == ComputeNofCodeblocks(seg.tbs, seg.bg)
        call  == [NoCall EXCEPT !.op = "step", !.key = key, !.tbs = seg.tbs,
                                !.ncb = n, !.expected = check]
        early == StepCheck(seg.tbs, n, check, GetMemento(storage, key))
    IN  IF early # "none"
          THEN /\ last' = [call EXCEPT !.err = early]
               /\ UNCHANGED <<heap, storage, nextMid>>
          ELSE
            \E isNew \in BOOLEAN, rnti \in RNTIs, harq \in HARQs :
              LET id   == BufferIdentifier(rnti, harq)
                  r    == RetrieveSoftbuffer(key, id, n, isNew)
                  resv == [call EXCEPT !.session = <<rnti, harq>>,
                                       !.sid = id, !.newData = isNew,
                                       !.status = r.status, !.fresh = r.fresh,
                                       !.resv = r.buf]
              IN  IF r.err = "Undefined"
                    THEN /\ \E u \in UndefinedOutcomes :
                              last' = [call EXCEPT !.err = u]
                         /\ UNCHANGED <<heap, storage, nextMid>>
                  ELSE IF r.err # "none"
                    THEN /\ last' = [resv EXCEPT !.err = r.err]
                         /\ heap' = r.heap
                         /\ UNCHANGED <<storage, nextMid>>
                    ELSE
                      \E done \in BOOLEAN, pass \in CrcOutcomes(n) :
                        /\ ~done => pass = {}
                        /\ heap' = WriteBuf(r.heap, storage, key, id,
                                            Decode(r.buf, pass))
                        /\ last' = [resv EXCEPT
                             !.decoded = TRUE, !.cfgNew = isNew,
                             !.hasResult = done,
                             !.err = StepFinish(done).err,
                             !.out = StepFinish(done).out]
                        /\ UNCHANGED <<storage, nextMid>>

\* method_reset_crcs: reserves the buffer as for new data and resets its
\* CRC flags.
MethodResetCrcs ==
  /\ now' = now
  /\ callbacks' = callbacks
  /\ \E key \in Keys :
    LET call == [NoCall EXCEPT !.op = "reset_crcs", !.key = key]
    IN  IF GetMemento(storage, key) = Null
          THEN /\ last' = [call EXCEPT !.err = "UnknownHandle"]
               /\ UNCHANGED <<heap, storage, nextMid>>
          ELSE
            \E rnti \in RNTIs, harq \in HARQs, n \in NcbValues :
              LET id   == BufferIdentifier(rnti, harq)
                  r    == RetrieveSoftbuffer(key, id, n, TRUE)
                  resv == [call EXCEPT !.ncb = n, !.session = <<rnti, harq>>,
                                       !.sid = id, !.newData = TRUE,
                                       !.status = r.status, !.fresh = r.fresh,
                                       !.resv = r.buf]
              IN  IF r.err = "Undefined"
                    THEN /\ \E u \in UndefinedOutcomes :
                              last' = [call EXCEPT !.err = u]
                         /\ UNCHANGED <<heap, storage, nextMid>>
                  ELSE IF r.err # "none"
                    THEN /\ last' = [resv EXCEPT !.err = r.err]
                         /\ heap' = r.heap
                         /\ UNCHANGED <<storage, nextMid>>
                    ELSE /\ heap' = WriteBuf(r.heap, storage, key, id,
                                             ResetCodeblocksCrc(r.buf))
                         /\ last' = resv
                         /\ UNCHANGED <<storage, nextMid>>

\* method_release: releases the memento, and with it the pool.
MethodRelease ==
  \E key \in Keys :
    LET r == ReleaseMemento(storage, key)
    IN  /\ storage' = r.storage
        /\ heap' = Collect(heap, r.storage)
        /\ last' = [NoCall EXCEPT !.op = "release", !.key = key,
                                  !.released = r.count,
                                  !.err = IF r.count = 0 THEN "NothingReleased"
                                          ELSE "none"]
        /\ UNCHANGED <<nextMid, now, callbacks>>

\* The radio timeline moves on by one slot between two calls.  No method
\* takes the slot as an input and none runs the slot clock of a pool.
Tick ==
  /\ now < MaxSlot
  /\ now' = now + 1
  /\ UNCHANGED <<heap, storage, nextMid, last, callbacks>>

(***************************************************************************)
(* Dispatcher: srsran_mex_dispatcher.                                      *)
(***************************************************************************)
\* callbacks.end(): no method is bound.
NoMethod == "none"

\* std::map::find on the callbacks: the method bound to the name, if any.
\* A search that falls back on a bound method when the name is not bound,
\* for comparison.
FindOrAny(cb, name) ==
  IF name \in DOMAIN cb THEN cb[name]
  ELSE IF DOMAIN cb = {} THEN NoMethod
  ELSE cb[CHOOSE n \in DOMAIN cb : TRUE]
Find(cb, name) == IF name \in DOMAIN cb THEN cb[name] ELSE NoMethod

\* create_callback: the error raised, if any, and the callbacks it leaves.
\* A registration that rebinds a name already bound, for comparison.
CreateCallbackRebind(cb, name, fnc) ==
  [err |-> "none",
   callbacks |-> [n \in DOMAIN cb \cup {name} |->
                    IF n = name THEN fnc ELSE cb[n]]]
CreateCallback(cb, name, fnc) ==
  IF Find(cb, name) # NoMethod
    THEN [err |-> "DuplicateAction", callbacks |-> cb]
    ELSE [err |-> "none", callbacks |-> Emplace(cb, name, fnc)]

\* The callbacks the constructor of the PUSCH decoder MexFunction creates.
PuschCallbacks ==
  [n \in {"new", "step", "reset_crcs", "release"} |->
     CASE n = "new"        -> "method_new"
       [] n = "step"       -> "method_step"
       [] n = "reset_crcs" -> "method_reset_crcs"
       [] n = "release"    -> "method_release"]

\* The action names a caller presents to the PUSCH decoder MexFunction.
PuschActionNames == DOMAIN PuschCallbacks \cup {"decode"}

\* operator() reaches the given method: it is the one bound to the name.
Calls(name, method) == Find(callbacks, name) = method

\* operator() with an action name no method is bound to.
UnknownAction ==
  \E name \in PuschActionNames :
    /\ Find(callbacks, name) = NoMethod
    /\ last' = [NoCall EXCEPT !.op = name, !.err = "UnknownAction"]
    /\ UNCHANGED <<heap, storage, nextMid, now, callbacks>>

(***************************************************************************)
(* The MexFunction of the dispatcher unit test.                            *)
(***************************************************************************)
\* MATLAB arrays of an argument list: a char array or a scalar double.
Char(s) == [type |-> "CHAR", str |-> s, num |-> 0]
Double(d) == [type |-> "DOUBLE", str |-> "", num |-> d]

\* Names the unit test binds, and one it leaves unbound.
BoundNames == {"one", "two"}
TestNames == BoundNames \cup {"three"}
TestMethods == {"method_one", "method_two"}

\* The argument lists: a first input followed by further inputs.
TestArgs == {Double(d) : d \in 0..MaxArg} \cup {Char("one")}
TestFirst == {Char(n) : n \in TestNames} \cup {Double(d) : d \in 0..MaxArg}
TestInputs ==
  UNION { {<<f>> \o t : f \in TestFirst, t \in [1..k -> TestArgs]} :
          k \in 0..(MaxInputs - 1) }

\* method_one: one more than the scalar double at inputs[1].
MethodOne(inputs) ==
  IF Len(inputs) # 2
    THEN [err |-> "WrongNumberOfInputs", out |-> {}, val |-> 0]
  ELSE IF inputs[2].type # "DOUBLE"
    THEN [err |-> "NotScalarDouble", out |-> {}, val |-> 0]
  ELSE [err |-> "none", out |-> {0}, val |-> inputs[2].num + 1]

\* method_two: two more than the scalar double at inputs[1].
MethodTwo(inputs) ==
  IF Len(inputs) # 2
    THEN [err |-> "WrongNumberOfInputs", out |-> {}, val |-> 0]
  ELSE IF inputs[2].type # "DOUBLE"
    THEN [err |-> "NotScalarDouble", out |-> {}, val |-> 0]
  ELSE [err |-> "none", out |-> {0}, val |-> inputs[2].num + 2]

\* The std::function stored in the callbacks, applied to an argument list.
Invoke(method, inputs) ==
  IF method = "method_one" THEN MethodOne(inputs) ELSE MethodTwo(inputs)

\* The argument list operator() passes to the method: the one it was given,
\* the action name still at its head.
Forward(inputs) == inputs

\* A constructor registers a method under a name.
Register ==
  \E name \in BoundNames, fnc \in TestMethods :
    LET r == CreateCallback(callbacks, name, fnc)
    IN  /\ callbacks' = r.callbacks
        /\ last' = [NoCall EXCEPT !.reg = <<name, fnc>>, !.err = r.err]
        /\ UNCHANGED <<heap, storage, nextMid, now>>

\* operator(): checks the first input, looks the method up and invokes it.
Operator ==
  \E inputs \in TestInputs :
    /\ UNCHANGED <<heap, storage, nextMid, now, callbacks>>
    /\ LET call == [NoCall EXCEPT !.inputs = inputs]
       IN  IF inputs[1].type # "CHAR"
             THEN last' = [call EXCEPT !.err = "FirstInputNotChar"]
             ELSE
               LET name   == inputs[1].str
                   method == Find(callbacks, name)
                   named  == [call EXCEPT !.op = name]
                   r      == Invoke(method, Forward(inputs))
               IN  IF method = NoMethod
                     THEN last' = [named EXCEPT !.err = "UnknownAction"]
                     ELSE last' = [named EXCEPT
                            !.handler = method, !.received = Forward(inputs),
                            !.err = r.err, !.out = r.out, !.val = r.val]

(***************************************************************************)
(* Specification.                                                          *)
(***************************************************************************)
Init ==
  /\ heap = [a \in {} |-> [mid |-> 0, pool |-> 0]]
  /\ storage = [k \in {} |-> Null]
  /\ nextMid = 1
  /\ last = NoCall
  /\ now = 0
  /\ callbacks = PuschCallbacks

Next ==
  \/ Calls("new", "method_new") /\ MethodNew
  \/ Calls("step", "method_step") /\ MethodStep
  \/ Calls("reset_crcs", "method_reset_crcs") /\ MethodResetCrcs
  \/ Calls("release", "method_release") /\ MethodRelease
  \/ UnknownAction

Spec == Init /\ [][Next]_vars

\* The calls on a single memento, with the slots passing between them.
NextSlots ==
  \/ Calls("new", "method_new") /\ MethodNew /\ nextMid = 1
  \/ Calls("step", "method_step") /\ MethodStep
  \/ Calls("reset_crcs", "method_reset_crcs") /\ MethodResetCrcs
  \/ Calls("release", "method_release") /\ MethodRelease
  \/ Tick

SpecSlots == Init /\ [][NextSlots]_vars

\* The dispatcher on its own, from construction: methods are registered
\* and actions dispatched to the methods of the unit test.
InitDispatch ==
  /\ heap = [a \in {} |-> [mid |-> 0, pool |-> 0]]
  /\ storage = [k \in {} |-> Null]
  /\ nextMid = 1
  /\ last = NoCall
  /\ now = 0
  /\ callbacks = [n \in {} |-> NoMethod]

NextDispatch ==
  \/ Register
  \/ Operator

SpecDispatch == InitDispatch /\ [][NextDispatch]_vars

(***************************************************************************)
(* The memento storage on its own.                                         *)
(***************************************************************************)
\* The shared pointers a caller can hand to the storage: the null pointer
\* and the addresses of mementos it has made.
StorePtrs == {Null} \cup 1..(NumAddr + 1)
\* The keys a caller can present: any value of size_t that a hash yields.
StoreKeys == {Hash(p) : p \in StorePtrs}

\* srsran_assert(mem, "Null memento") on a null pointer: a build with
\* assertions stops the process there, a build without them goes on.
AssertOutcomes == {"AssertionFailed", "AssertionSkipped"}

\* memento_storage::store: the assertion, then the key computed from the
\* pointer and the insertion.  Nothing in it raises an error.
StoreOutcome(st, mem, build) ==
  IF mem = Null /\ build = "AssertionFailed"
    THEN [err |-> "AssertionFailed", storage |-> st, key |-> 0, out |-> {}]
    ELSE [err |-> "none", storage |-> Store(st, mem).storage,
          key |-> Store(st, mem).key, out |-> {0}]

StoreMemento ==
  \E mem \in StorePtrs, build \in AssertOutcomes :
    LET r == StoreOutcome(storage, mem, build)
    IN  /\ storage' = r.storage
        /\ last' = [NoCall EXCEPT !.op = "store", !.mem = mem, !.err = r.err,
                                  !.ret = r.key, !.out = r.out]
        /\ UNCHANGED <<heap, nextMid, now, callbacks>>

\* memento_storage::get_memento.
LookupMemento ==
  \E key \in StoreKeys :
    /\ last' = [NoCall EXCEPT !.op = "get_memento", !.key = key,
                              !.mem = GetMemento(storage, key), !.out = {0}]
    /\ UNCHANGED <<heap, storage, nextMid, now, callbacks>>

\* memento_storage::release_memento.
EraseMemento ==
  \E key \in StoreKeys :
    LET r == ReleaseMemento(storage, key)
    IN  /\ storage' = r.storage
        /\ last' = [NoCall EXCEPT !.op = "release_memento", !.key = key,
                                  !.released = r.count, !.out = {0}]
        /\ UNCHANGED <<heap, nextMid, now, callbacks>>

NextStore ==
  \/ StoreMemento
  \/ LookupMemento
  \/ EraseMemento

SpecStore == Init /\ [][NextStore]_vars

(***************************************************************************)
(* Properties of the handle store.                                         *)
(***************************************************************************)
\* The memento a key resolves to in a given store and heap.
MementoOf(hp, st, key) == hp[GetMemento(st, key)]

\* C1 (as claimed): a handle is valid only for the memento it was derived
\* from.  Once release(h) has removed its memento, the call that follows
\* never leaves h resolving again: whatever h resolved to then would be a
\* memento other than the released one.
C1_StaleHandleStaysInvalid ==
  [][ (last.op = "release" /\ last.released = 1)
        => GetMemento(storage', last.key) = Null ]_vars

\* C2: round trip of the handle store.  The key returned by "new" is not the
\* key of a memento already held and resolves to exactly the memento just
\* created; every key of the store keeps resolving to the same memento
\* through every call except the release of that very key.
C2_StoreLookupRoundTrip ==
  [][ /\ last'.op = "new" =>
           /\ last'.ret \notin DOMAIN storage
           /\ GetMemento(storage', last'.ret) # Null
           /\ MementoOf(heap', storage', last'.ret).mid = nextMid
      /\ \A k \in DOMAIN storage :
           ~(last'.op = "release" /\ last'.key = k) =>
             /\ GetMemento(storage, k) # Null
             /\ GetMemento(storage', k) = GetMemento(storage, k)
             /\ MementoOf(heap', storage', k).mid = MementoOf(heap, storage, k).mid
    ]_vars

\* A memento has been stored while another one was held, and its key
\* resolves.
C2_Witness ==
  /\ last.op = "new"
  /\ Cardinality(DOMAIN storage) = 2
  /\ GetMemento(storage, last.ret) # Null

\* C3: a lookup yields a memento only for a key of the store whose recomputed
\* checksum equals the key, and then the memento stored under it; in every
\* other case the call that made the lookup ends with the one error
\* UnknownHandle.
C3_LookupNotFoundOnly ==
  /\ \A k \in Keys :
       GetMemento(storage, k) # Null =>
         /\ k \in DOMAIN storage
         /\ Hash(storage[k]) = k
         /\ GetMemento(storage, k) = storage[k]
  /\ ( /\ last.op \in {"step", "reset_crcs"}
       /\ last.err \notin {"TbsNotByteExact", "CodeblockCountMismatch"} )
       => ( last.err = "UnknownHandle"
              <=> ~(last.key \in DOMAIN storage
                      /\ Hash(storage[last.key]) = last.key) )

\* A lookup has failed for a key while the store holds another memento.
C3_Witness ==
  /\ last.op = "reset_crcs"
  /\ last.err = "UnknownHandle"
  /\ DOMAIN storage # {}

\* C4: a release that directly follows the "new" that returned its handle
\* releases exactly one memento, and a second release of the same handle
\* releases none.
C4_NewReleaseRelease ==
  [][ /\ (last.op = "new" /\ last'.op = "release" /\ last'.key = last.ret)
           => /\ last'.released = 1
              /\ DOMAIN storage' = DOMAIN storage \ {last.ret}
              /\ last.ret \in DOMAIN storage
      /\ ( /\ last.op = "release" /\ last.released = 1
           /\ last'.op = "release" /\ last'.key = last.key )
           => /\ last'.released = 0
              /\ storage' = storage
    ]_vars

\* The only memento ever created has been released.
C4_Witness ==
  /\ last.op = "release"
  /\ last.released = 1
  /\ nextMid = 2
  /\ DOMAIN storage = {}

\* C5 (as claimed): release is tolerant, it never fails the call.
C5_ReleaseNeverFails == last.op = "release" => last.err = "none"

(***************************************************************************)
(* Properties of step and reset_crcs.                                      *)
(***************************************************************************)
\* C6 (as claimed): step and reset_crcs with a handle the store does not
\* resolve fail with UnknownHandle.
C6_UnknownHandleAlwaysReported ==
  (last.op \in {"step", "reset_crcs"} /\ last.key \notin DOMAIN storage)
    => last.err = "UnknownHandle"

\* C6 (amended): step and reset_crcs with a handle the store does not
\* resolve always fail, without a reservation, a change of any buffer or a
\* run of the decode engine.  reset_crcs fails with UnknownHandle; step fails
\* with UnknownHandle unless one of its earlier checks has failed the call.
C6_UnknownHandleFailsWithoutEffect ==
  [][ (last'.op \in {"step", "reset_crcs"} /\ last'.key \notin DOMAIN storage)
        => /\ last'.err \in {"UnknownHandle", "TbsNotByteExact",
                             "CodeblockCountMismatch"}
           /\ last'.op = "reset_crcs" => last'.err = "UnknownHandle"
           /\ (last'.tbs % 8 = 0 /\ last'.ncb = last'.expected)
                => last'.err = "UnknownHandle"
           /\ last'.status = "none"
           /\ ~last'.decoded
           /\ heap' = heap
           /\ storage' = storage
    ]_vars

\* A step has failed with UnknownHandle while the store holds a memento.
C6_Witness ==
  /\ last.op = "step"
  /\ last.err = "UnknownHandle"
  /\ DOMAIN storage # {}

\* C7 (as claimed): whenever the declared codeblock count differs from the
\* computed one, step fails with CodeblockCountMismatch.
C7_MismatchAlwaysReported ==
  (last.op = "step" /\ last.ncb # last.expected)
    => last.err = "CodeblockCountMismatch"

\* C7 (amended): whenever the declared codeblock count differs from the
\* computed one, step fails before any reservation: the pools are unchanged
\* and the decode engine is not invoked.  The failure is
\* CodeblockCountMismatch when the transport block is a whole number of
\* bytes, and the failure of that earlier check otherwise.
C7_MismatchFailsBeforeReservation ==
  [][ (last'.op = "step" /\ last'.ncb # last'.expected)
        => /\ last'.err = IF last'.tbs % 8 = 0 THEN "CodeblockCountMismatch"
                          ELSE "TbsNotByteExact"
           /\ last'.status = "none"
           /\ ~last'.decoded
           /\ last'.out = {}
           /\ heap' = heap
    ]_vars

\* A step on a known handle has failed on the codeblock count.
C7_Witness ==
  /\ last.op = "step"
  /\ last.err = "CodeblockCountMismatch"
  /\ last.key \in DOMAIN storage
  /\ MementoOf(heap, storage, last.key).pool.bufs # [id \in {} |-> NoBuf]

\* C8 (as claimed): the handle is resolved before the codeblock counts are
\* compared, so an unknown handle together with a count that disagrees is
\* reported as UnknownHandle.
C8_HandleResolvedFirst ==
  ( /\ last.op = "step" /\ last.tbs % 8 = 0
    /\ last.key \notin DOMAIN storage /\ last.ncb # last.expected )
    => last.err = "UnknownHandle"

\* C8 (amended): step compares the codeblock counts, then resolves the
\* handle, then reserves, then decodes.  An unknown handle together with a
\* count that disagrees is reported as CodeblockCountMismatch; UnknownHandle
\* is reported only when the counts agree; a reservation is made only for a
\* known handle and agreeing counts; the decode engine runs only after a
\* successful reservation.
C8_CountComparedFirst ==
  last.op = "step" =>
    /\ ( /\ last.tbs % 8 = 0 /\ last.key \notin DOMAIN storage
         /\ last.ncb # last.expected )
         => last.err = "CodeblockCountMismatch"
    /\ last.err = "UnknownHandle"
         => (last.ncb = last.expected /\ last.key \notin DOMAIN storage)
    /\ last.status # "none"
         => (last.ncb = last.expected /\ last.key \in DOMAIN storage)
    /\ last.decoded => last.status = "ok"

\* A step with an unknown handle and a disagreeing count has been reported.
C8_Witness ==
  /\ last.op = "step"
  /\ last.tbs % 8 = 0
  /\ last.key \notin DOMAIN storage
  /\ last.ncb # last.expected
  /\ last.err = "CodeblockCountMismatch"

\* C9: two steps on the same handle for retransmissions of the same session
\* identifier and codeblock count use the same buffer.  The second
\* reservation allocates nothing and hands out the buffer the first step
\* left, with its soft data and CRC flags as they were.
C9_RetransmissionReusesBuffer ==
  [][ ( /\ last.op = "step" /\ last.status = "ok" /\ ~last.newData
        /\ last'.op = "step" /\ last'.status # "none" /\ ~last'.newData
        /\ last'.key = last.key /\ last'.sid = last.sid
        /\ last'.ncb = last.ncb )
        => /\ last'.status = "ok"
           /\ ~last'.fresh
           /\ last'.resv = MementoOf(heap, storage, last.key).pool.bufs[last.sid]
           /\ DOMAIN MementoOf(heap', storage', last.key).pool.bufs
                = DOMAIN MementoOf(heap, storage, last.key).pool.bufs
    ]_vars

\* A retransmission has been handed a buffer that holds combined soft data.
C9_Witness ==
  /\ last.op = "step"
  /\ ~last.newData
  /\ last.status = "ok"
  /\ ~last.fresh
  /\ last.resv.soft > 0
  /\ last.decoded

C13_ExpiredBufferTreatedAbsent ==
  [][ ( /\ now' = now
        /\ last'.op \in {"step", "reset_crcs"}
        /\ last'.status = "ok" )
        => LET pool == MementoOf(heap, storage, last'.key).pool
               s    == last'.sid
           IN  /\ last'.resv.touched = now
               /\ ( /\ s \in DOMAIN pool.bufs
                    /\ now - pool.bufs[s].touched > pool.cfg.expire_timeout_slots )
                    => last'.fresh
    ]_vars

\* C14: a reservation for new data on a session with a live buffer always
\* succeeds, whatever the codeblock count, on that same buffer: nothing is
\* allocated, the buffer is handed out without soft data and without CRC
\* flags and with the codeblock count of the call, which it has in the pool
\* afterwards, and the other buffers of the pool stay as they were.
C14_NewDataClearsAndResizes ==
  [][ ( /\ now' = now
        /\ last'.op \in {"step", "reset_crcs"}
        /\ last'.status # "none"
        /\ last'.newData
        /\ last'.sid \in LiveIds(MementoOf(heap, storage, last'.key).pool,
                                 DefaultSlot) )
        => LET old == MementoOf(heap, storage, last'.key).pool.bufs
               new == MementoOf(heap', storage', last'.key).pool.bufs
           IN  /\ last'.status = "ok"
               /\ last'.err # "CannotRetrieveSoftbuffer"
               /\ ~last'.fresh
               /\ last'.resv = NewBuf(last'.ncb, DefaultSlot)
               /\ DOMAIN new = DOMAIN old
               /\ new[last'.sid].ncb = last'.ncb
               /\ \A o \in DOMAIN old \ {last'.sid} : new[o] = old[o]
    ]_vars

\* A step for new data has been handed the live buffer of its session,
\* cleared, and has decoded into it.
C14_Witness ==
  /\ last.op = "step"
  /\ last.newData
  /\ last.status = "ok"
  /\ ~last.fresh
  /\ last.resv.soft = 0
  /\ last.decoded
  /\ last.ncb = 2

\* C15 (as claimed): reset_crcs on a known handle and a session with a live
\* buffer clears the CRC flags of that buffer and leaves its soft data, its
\* codeblock count and every other buffer of the pool unchanged, without a
\* decode.
C15_ResetCrcsKeepsSoftData ==
  [][ ( /\ now' = now
        /\ last'.op = "reset_crcs"
        /\ last'.status # "none"
        /\ last'.sid \in LiveIds(MementoOf(heap, storage, last'.key).pool,
                                 DefaultSlot) )
        => LET old == MementoOf(heap, storage, last'.key).pool.bufs
               new == MementoOf(heap', storage', last'.key).pool.bufs
           IN  /\ last'.err = "none"
               /\ ~last'.decoded
               /\ DOMAIN new = DOMAIN old
               /\ new[last'.sid] = [old[last'.sid] EXCEPT !.crc = {}]
               /\ \A o \in DOMAIN old \ {last'.sid} : new[o] = old[o]
    ]_vars

\* C16 (as claimed): reset_crcs on a known handle and a session for which
\* the pool holds no buffer creates no buffer and leaves the pool unchanged.
C16_ResetCrcsUnknownSessionNoEffect ==
  [][ ( /\ now' = now
        /\ last'.op = "reset_crcs"
        /\ GetMemento(storage, last'.key) # Null
        /\ last'.sid \in SessionIds
        /\ last'.sid \notin DOMAIN MementoOf(heap, storage, last'.key).pool.bufs )
        => /\ heap' = heap
           /\ ~last'.fresh
    ]_vars

C18_HandleHasUsablePool ==
  /\ \A k \in DOMAIN storage :
       /\ GetMemento(storage, k) # Null
       /\ MementoOf(heap, storage, k).pool.valid
  /\ last.op = "new" /\ last.err = "none" => last.ret \in DOMAIN storage

\* C19 (as claimed): whenever a step ends in an error, none of its outputs
\* has been assigned.
C19_NoOutputOnError ==
  (last.op = "step" /\ last.err # "none") => last.out = {}

\* C19 (amended): whenever a call ends in an error, the statistics output
\* has not been assigned; the transport block output has been assigned only
\* when the error is that the decoder has run and reported no result.
C19_NoStatisticsOnError ==
  last.err # "none" =>
    /\ 1 \notin last.out
    /\ last.out # {} =>
         /\ last.op = "step"
         /\ last.err = "NoResult"
         /\ last.decoded
         /\ ~last.hasResult
         /\ last.out = {0}
    /\ last.err # "NoResult" => last.out = {}

\* A step has ended in an error after the decoder has run.
C19_Witness ==
  /\ last.op = "step"
  /\ last.err = "NoResult"
  /\ last.decoded
  /\ last.out = {0}

\* C20: a step returns successfully only when the decoder has run in that
\* call and its notifier has reported a result, and then both outputs are
\* assigned; when the decoder has run and no result has been reported, the
\* call fails and the statistics are not assigned.
C20_ResultObservedBeforeReturn ==
  last.op = "step" =>
    /\ last.err = "none" =>
         (last.decoded /\ last.hasResult /\ last.out = {0, 1})
    /\ (last.decoded /\ ~last.hasResult) =>
         (last.err = "NoResult" /\ 1 \notin last.out)
    /\ last.hasResult => (last.decoded /\ last.status = "ok")

\* A step has returned with the result of its decoding.
C20_Witness ==
  /\ last.op = "step"
  /\ last.err = "none"
  /\ last.hasResult
  /\ last.out = {0, 1}

(***************************************************************************)
(* Properties of the dispatcher.                                           *)
(***************************************************************************)
\* C21: a dispatch whose action name no method is bound to fails with
\* UnknownAction; no method is invoked, no output is assigned, and neither
\* the callbacks nor the handle store nor any memento changes.
C21_UnknownActionFailsWithoutEffect ==
  [][(/\ last'.inputs # <<>>
      /\ last'.inputs[1].type = "CHAR"
      /\ last'.inputs[1].str \notin DOMAIN callbacks)
     => /\ last'.err = "UnknownAction"
        /\ last'.op = last'.inputs[1].str
        /\ last'.handler = NoMethod
        /\ last'.received = <<>>
        /\ last'.out = {}
        /\ UNCHANGED <<callbacks, heap, storage, nextMid>>]_vars

\* An action name is refused although another name is bound to a method.
C21_Witness ==
  /\ last.err = "UnknownAction"
  /\ last.op = "one"
  /\ Len(last.inputs) = 2
  /\ DOMAIN callbacks = {"two"}

\* C22: registering a method under a name that is already bound fails with
\* DuplicateAction and leaves the callbacks as they were, the earlier method
\* still bound; under a free name the method is bound and no other binding
\* changes.
C22_DuplicateRegistrationRefused ==
  [][last'.reg # <<>>
     => IF last'.reg[1] \in DOMAIN callbacks
          THEN /\ last'.err = "DuplicateAction"
               /\ callbacks' = callbacks
          ELSE /\ last'.err = "none"
               /\ DOMAIN callbacks' = DOMAIN callbacks \cup {last'.reg[1]}
               /\ callbacks'[last'.reg[1]] = last'.reg[2]
               /\ \A n \in DOMAIN callbacks : callbacks'[n] = callbacks[n]]_vars

\* A second method was offered for a bound name and the first one stays.
C22_Witness ==
  /\ last.err = "DuplicateAction"
  /\ last.reg = <<"one", "method_two">>
  /\ "one" \in DOMAIN callbacks
  /\ callbacks["one"] = "method_one"

\* C23 (as claimed): a dispatch whose action name is bound forwards to the
\* method bound to that name the remaining arguments of the call, those
\* after the action name, verbatim and in order.
C23_ForwardsArgumentsAfterName ==
  last.handler # NoMethod => last.received = Tail(last.inputs)

(***************************************************************************)
(* Properties of the memento storage on its own.                           *)
(***************************************************************************)
\* C24: storing a null memento fails with an error, leaves the storage as
\* it was and returns no handle.
C24_NullMementoRefused ==
  [][(last'.op = "store" /\ last'.mem = Null)
     => /\ last'.err # "none"
        /\ last'.out = {}
        /\ storage' = storage]_vars

\* C25: release_memento(h) removes the entry of h and no other and returns
\* 1 when h was a key; when h is no key it returns 0, raises nothing and
\* leaves the storage as it was.  Every other key resolves to the memento it
\* resolved to before.
C25_ReleaseRemovesOnlyThatEntry ==
  [][last'.op = "release_memento"
     => /\ last'.err = "none"
        /\ last'.released = (IF last'.key \in DOMAIN storage THEN 1 ELSE 0)
        /\ DOMAIN storage' = DOMAIN storage \ {last'.key}
        /\ \A k \in DOMAIN storage' :
              /\ storage'[k] = storage[k]
              /\ GetMemento(storage', k) = GetMemento(storage, k)
        /\ last'.key \notin DOMAIN storage => storage' = storage]_vars

\* One of three stored mementos was released and the other two are left.
C25_Witness ==
  /\ last.op = "release_memento"
  /\ last.released = 1
  /\ last.key \notin DOMAIN storage
  /\ Cardinality(DOMAIN storage) = 2
  /\ \A k \in DOMAIN storage : GetMemento(storage, k) # Null

(***************************************************************************)
(* Properties of the handle store behind the methods.                      *)
(***************************************************************************)
\* C26: in every state the methods can reach, each entry of the storage is
\* filed under the hash of the memento it holds, a live one; so the checksum
\* test of get_memento never fails on an entry, a key resolves to nothing
\* exactly when it is no key of the storage, and reset_crcs reports an
\* unknown handle exactly then.
C26_KeyIsHashOfStoredMemento ==
  /\ \A k \in DOMAIN storage :
        /\ storage[k] \in DOMAIN heap
        /\ Hash(storage[k]) = k
  /\ \A h \in Keys :
        GetMemento(storage, h) = Null <=> h \notin DOMAIN storage
  /\ last.op = "reset_crcs"
     => (last.err = "UnknownHandle" <=> last.key \notin DOMAIN storage)

\* Two mementos are stored and reset_crcs has resolved the handle of one.
C26_Witness ==
  /\ Cardinality(DOMAIN storage) = 2
  /\ last.op = "reset_crcs"
  /\ last.key \in DOMAIN storage
  /\ last.status = "ok"

\* C27: the set of valid handles changes through a successful "new", which
\* adds exactly the handle it returns, and through a successful "release",
\* which removes exactly the handle it was given; "step", "reset_crcs", a
\* dispatch of an unknown action and every call that fails leave the storage
\* as it was.  A handle that stays keeps the memento it had.
C27_HandlesChangeOnlyByNewAndRelease ==
  [][now' = now
     => /\ IF last'.op = "new" /\ last'.err = "none"
             THEN /\ last'.ret \notin DOMAIN storage
                  /\ DOMAIN storage' = DOMAIN storage \cup {last'.ret}
           ELSE IF last'.op = "release" /\ last'.err = "none"
             THEN /\ last'.key \in DOMAIN storage
                  /\ DOMAIN storage' = DOMAIN storage \ {last'.key}
           ELSE storage' = storage
        /\ \A k \in DOMAIN storage \cap DOMAIN storage' :
              /\ storage'[k] = storage[k]
              /\ MementoOf(heap', storage', k).mid
                   = MementoOf(heap, storage, k).mid]_vars

\* An unknown action was dispatched while a handle was valid.
C27_Witness ==
  /\ last.err = "UnknownAction"
  /\ last.op \notin DOMAIN callbacks
  /\ Cardinality(DOMAIN storage) = 1

\* C28: every "new" makes a pool of its own, empty, inside the memento it
\* stores, and leaves the mementos there are as they were; a step or a
\* reset_crcs made with one handle leaves the pool of every other memento
\* exactly as it was, whatever the session identifier it names; a release
\* made with one handle destroys at most the memento of that handle and
\* leaves every other memento, its pool and its handle as they were.
C28_PoolsOfDistinctHandlesIsolated ==
  [][now' = now
     => /\ last'.op = "release"
           => /\ \A a \in DOMAIN heap :
                   a # GetMemento(storage, last'.key)
                     => a \in DOMAIN heap' /\ heap'[a] = heap[a]
              /\ \A k \in DOMAIN storage \ {last'.key} :
                   /\ GetMemento(storage', k) = GetMemento(storage, k)
                   /\ MementoOf(heap', storage', k) = MementoOf(heap, storage, k)
        /\ last'.op \in {"step", "reset_crcs"}
           => \A a \in DOMAIN heap :
                a # GetMemento(storage, last'.key)
                  => a \in DOMAIN heap' /\ heap'[a] = heap[a]
        /\ last'.op = "new"
           => /\ \A a \in DOMAIN heap :
                   a \in DOMAIN heap' /\ heap'[a] = heap[a]
              /\ storage'[last'.ret] \notin DOMAIN heap
              /\ DOMAIN MementoOf(heap', storage', last'.ret).pool.bufs = {}
              /\ \A a \in DOMAIN heap :
                   heap[a].mid # MementoOf(heap', storage', last'.ret).mid]_vars

\* Two handles hold a buffer for the same session identifier, a step with
\* one of them has just decoded into its buffer, and the two buffers differ.
C28_Witness ==
  /\ last.op = "step"
  /\ last.decoded
  /\ Cardinality(DOMAIN storage) = 2
  /\ \A k \in DOMAIN storage :
        /\ MementoOf(heap, storage, k).pool.valid
        /\ last.sid \in DOMAIN MementoOf(heap, storage, k).pool.bufs
  /\ \E k \in DOMAIN storage :
        MementoOf(heap, storage, k).pool.bufs[last.sid]
          # MementoOf(heap, storage, last.key).pool.bufs[last.sid]

(***************************************************************************)
(* Properties of one call.                                                 *)
(***************************************************************************)
\* C29: in a step that reaches the decoder, the buffer was reserved with the
\* new-data flag the decoder is configured with, for the session named in
\* the call, and with the codeblock count the segmentation gives, which is
\* the count the decoder works with.  A decoder configured for new data gets
\* a cleared buffer of that size; one configured for a retransmission gets
\* the live buffer of the session, if there is one, with its soft data and
\* CRC flags.
C29_ReservationAgreesWithDecoder ==
  [][(now' = now /\ last'.op = "step" /\ last'.decoded)
     => LET pool == MementoOf(heap, storage, last'.key).pool
            live == last'.sid \in LiveIds(pool, DefaultSlot)
        IN  /\ last'.status = "ok"
            /\ last'.cfgNew = last'.newData
            /\ last'.ncb = last'.expected
            /\ last'.resv.ncb = last'.expected
            /\ last'.cfgNew => last'.resv = NewBuf(last'.expected, DefaultSlot)
            /\ (~last'.cfgNew /\ live)
                 => /\ ~last'.fresh
                    /\ last'.resv.soft = pool.bufs[last'.sid].soft
                    /\ last'.resv.crc = pool.bufs[last'.sid].crc
            /\ (~last'.cfgNew /\ ~live) => last'.fresh]_vars

\* A decoder configured for new data was given the buffer the session
\* already had, of two codeblocks, cleared.
C29_Witness ==
  /\ last.op = "step"
  /\ last.decoded
  /\ last.cfgNew
  /\ ~last.fresh
  /\ last.resv.soft = 0
  /\ last.ncb = 2

====
